---- MODULE Spec2Model ----
(***************************************************************************)
(* Model of backend/app.py: the POST /upload handler, which saves an       *)
(* uploaded CSV, profiles it with pandas inside one try block, and stores  *)
(* either the report or a "metadata unavailable" row in the uploads table. *)
(*                                                                         *)
(* Conventions                                                             *)
(*   - an optional value (SQL NULL / Python None / float NaN) is a         *)
(*     sequence: <<>> for "no value", <<v>> for the value v;               *)
(*   - a Python number is [ty, milli]: ty is "int" or "float", milli is    *)
(*     the value in thousandths, so percentages rounded to 3 decimals and  *)
(*     counts live in the same unit and can be summed as Python sums them; *)
(*   - a money amount of unit_price is held in thousandths (mills), its    *)
(*     2-decimal rounding in cents;                                        *)
(*   - a string is a TLA+ string; where the code orders or scans strings   *)
(*     (sort by column name, "date" in name, the email pattern, ISO text   *)
(*     comparison) the model uses the tables below, written out for the    *)
(*     finite universe of strings the inputs are drawn from.               *)
(***************************************************************************)
EXTENDS Integers, Sequences, FiniteSets, TLC

VARIABLES request, disk, db, response, pc, attempts

vars == <<request, disk, db, response, pc, attempts>>

(* Largest number of data rows of an uploaded CSV. *)
MaxRows == 3

(* Largest number of times the client submits its file. *)
MaxUploads == 2

(* age < 18 or age > 100 *)
AgeLower == 18
AgeUpper == 100

(***************************************************************************)
(* Generic helpers                                                         *)
(***************************************************************************)
NULL == <<>>

Some(v) == <<v>>

Range(s) == {s[i] : i \in 1..Len(s)}

RECURSIVE SumSet(_, _)
SumSet(S, f) ==
  IF S = {} THEN 0
  ELSE LET x == CHOOSE y \in S : TRUE
       IN f[x] + SumSet(S \ {x}, f)

SetMax(S) == CHOOSE x \in S : \A y \in S : y <= x

SetMin(S) == CHOOSE x \in S : \A y \in S : x <= y

(* Lexicographic order on sequences of code points: Python's str '>' . *)
RECURSIVE StrGreater(_, _)
StrGreater(a, b) ==
  IF a = <<>> THEN FALSE
  ELSE IF b = <<>> THEN TRUE
  ELSE IF Head(a) # Head(b) THEN Head(a) > Head(b)
  ELSE StrGreater(Tail(a), Tail(b))

(* Python's round(x, ndigits) / numpy's round on the exact quotient a/b,    *)
(* a >= 0, b > 0: nearest integer, ties to even.                           *)
RoundHalfEven(a, b) ==
  LET q == a \div b
      r2 == 2 * (a % b)
  IN IF r2 < b THEN q
     ELSE IF r2 > b THEN q + 1
     ELSE IF q % 2 = 0 THEN q ELSE q + 1

PyInt(v) == [ty |-> "int", milli |-> 1000 * v]

PyFloat(m) == [ty |-> "float", milli |-> m]

PyNaN == [ty |-> "nan", milli |-> 0]

(* a + b of Python numbers: int + int is int, anything with a float is float *)
PyAdd(a, b) ==
  [ty |-> IF a.ty = "int" /\ b.ty = "int" THEN "int"
          ELSE IF a.ty = "nan" \/ b.ty = "nan" THEN "nan" ELSE "float",
   milli |-> a.milli + b.milli]

(* round((count / rows) * 100 if rows else 0.0, 3), in thousandths *)
Pct(count, rows) ==
  IF rows = 0 THEN PyFloat(0) ELSE PyFloat(RoundHalfEven(count * 100000, rows))

(***************************************************************************)
(* CSV fields and DataFrame cells                                          *)
(***************************************************************************)
(* A field of the CSV text: empty, a number literal, or other text. *)
Empty == [k |-> "empty", n |-> 0, s |-> ""]

NumText(n) == [k |-> "num", n |-> n, s |-> ""]

Text(s) == [k |-> "text", n |-> 0, s |-> s]

(* A cell of the DataFrame: NaN, a number (numeric dtype column), or a      *)
(* Python str (object dtype column); a str that spells a number keeps it   *)
(* in n with s = "#".                                                      *)
NaN == [k |-> "nan", n |-> 0, s |-> ""]

Num(n) == [k |-> "num", n |-> n, s |-> ""]

Str(s) == [k |-> "str", n |-> 0, s |-> s]

NumStr(n) == [k |-> "str", n |-> n, s |-> "#"]

(***************************************************************************)
(* The strings of the model and the string tests the code applies to them  *)
(***************************************************************************)
(* Every column name of the inputs, in Python's str order (code points:    *)
(* upper case before lower case), for sort_values(..., "column").          *)
ColumnOrder ==
  <<"Order_Date", "age", "cost_price", "current_stock", "date", "email",
    "paid_date", "payment_method", "product_id", "product_name",
    "reorder_level", "sale_date", "selling_price", "signup_date", "status",
    "total_amount", "txn_date", "unit_price">>

ColumnRank(c) == CHOOSE i \in 1..Len(ColumnOrder) : ColumnOrder[i] = c

StrLess(a, b) == ColumnRank(a) < ColumnRank(b)

(* "date" in c.lower() *)
ContainsDate(c) ==
  c \in {"Order_Date", "date", "paid_date", "sale_date", "signup_date", "txn_date"}

(* email_re.fullmatch(x) is not None: lower-case local part, "@", dotted    *)
(* lower-case domain. "B@D.COM" has upper case, "BAD" has no "@".          *)
EmailMatches(x) == x \in {"a@b.com", "c@d.com"}

(* Digits of a date text that pd.to_datetime(..., format='mixed') parses;  *)
(* any other text makes it raise.                                          *)
Parseable(x) == x \in {"2020-01-15", "01/15/2020", "2999-01-01"}

ParsedDate(x) ==
  IF x = "2999-01-01" THEN <<2, 9, 9, 9, 0, 1, 0, 1>>
  ELSE <<2, 0, 2, 0, 0, 1, 1, 5>>

(* Code points: "0" is 48, "-" 45, ":" 58, "T" 84, "N" 78, "a" 97, "." 46,  *)
(* "+" 43.  Timestamp.isoformat() of a date without time of day.           *)
IsoFormat(d) ==
  <<48 + d[1], 48 + d[2], 48 + d[3], 48 + d[4], 45, 48 + d[5], 48 + d[6], 45,
    48 + d[7], 48 + d[8], 84, 48, 48, 58, 48, 48, 58, 48, 48>>

(* NaT.isoformat() *)
NaTIso == <<78, 97, 84>>

(* pd.Timestamp(int).isoformat(): nanoseconds since 1970 *)
EpochIso == <<49, 57, 55, 48, 45, 48, 49, 45, 48, 49, 84, 48, 48, 58, 48, 48, 58, 48, 48>>

(* datetime.now(timezone.utc).isoformat(), the evaluation instant          *)
(* "2026-11-02T12:00:00.000001+00:00"                                      *)
TodayIso ==
  <<50, 48, 50, 54, 45, 49, 49, 45, 48, 50, 84, 49, 50, 58, 48, 48, 58, 48, 48,
    46, 48, 48, 48, 48, 48, 49, 43, 48, 48, 58, 48, 48>>

(* str.lower() of a file extension *)
Lower(x) == IF x = "CSV" THEN "csv" ELSE x

ALLOWED_EXTENSIONS == {"csv"}

(* allowed_file(filename): a dot, and the text after the last dot, lower-   *)
(* cased, is an allowed extension.  ext is <<>> when the name has no dot.  *)
allowed_file(filename) ==
  /\ filename.ext # NULL
  /\ Lower(filename.ext[1]) \in ALLOWED_EXTENSIONS

(* werkzeug's secure_filename: whitespace becomes "_" *)
secure_filename(filename) ==
  [filename EXCEPT !.stem = IF @ = "my data" THEN "my_data" ELSE @]

(* os.path.join(app.config["UPLOAD_FOLDER"], filename) *)
DestPath(filename) == [folder |-> "uploads", name |-> filename]

(***************************************************************************)
(* pd.read_csv                                                             *)
(***************************************************************************)
PositionOf(columns, c) == CHOOSE j \in 1..Len(columns) : columns[j] = c

FieldsOf(content, j) == [i \in 1..Len(content.rows) |-> content.rows[i][j]]

(* A column is object dtype when the file has no data row or some field is *)
(* not a number; otherwise it is numeric.                                  *)
IsObjectColumn(fields) ==
  Len(fields) = 0 \/ \E i \in 1..Len(fields) : fields[i].k = "text"

ParseColumn(fields) ==
  LET obj == IsObjectColumn(fields)
  IN [i \in 1..Len(fields) |->
        IF fields[i].k = "empty" THEN NaN
        ELSE IF fields[i].k = "text" THEN Str(fields[i].s)
        ELSE IF obj THEN NumStr(fields[i].n) ELSE Num(fields[i].n)]

(* The exception pd.read_csv raises on the file, <<>> if it parses. *)
ReadError(content) ==
  IF content.kind = "table" THEN NULL
  ELSE IF content.kind = "empty" THEN Some("EmptyDataError")
  ELSE IF content.kind = "ragged" THEN Some("ParserError")
  ELSE Some("UnicodeDecodeError")

(* df = pd.read_csv(dest_path); rows, cols = df.shape; df.columns *)
read_csv(content) ==
  [columns |-> content.columns,
   rows |-> Len(content.rows),
   object |-> [c \in Range(content.columns) |->
                 IsObjectColumn(FieldsOf(content, PositionOf(content.columns, c)))],
   data |-> [c \in Range(content.columns) |->
               ParseColumn(FieldsOf(content, PositionOf(content.columns, c)))]]

HasColumn(df, c) == c \in Range(df.columns)

(* The cells of column c that belong to `wanted`, counted with their rows *)
CountCells(df, c, wanted) ==
  Cardinality({i \in 1..df.rows : df.data[c][i] \in wanted})

(* Every value a cell of df takes *)
Cells(df) == UNION {Range(df.data[c]) : c \in Range(df.columns)}

NotNa(cell) == cell.k # "nan"

(* pd.to_numeric(x, errors="coerce"): <<n>>, or <<>> for NaN *)
to_numeric(cell) ==
  IF cell.k = "num" THEN Some(cell.n)
  ELSE IF cell.k = "str" /\ cell.s = "#" THEN Some(cell.n)
  ELSE NULL

(***************************************************************************)
(* Null profile (lines 149-159)                                            *)
(***************************************************************************)
null_counts(df) == [c \in Range(df.columns) |-> CountCells(df, c, {NaN})]

(* (df.isna().mean() * 100).round(2): the mean of no rows is NaN *)
null_pct(df, c) ==
  IF df.rows = 0 THEN PyNaN
  ELSE PyFloat(10 * RoundHalfEven(null_counts(df)[c] * 10000, df.rows))

NullEntry(df, c) ==
  [column |-> c, missing |-> null_counts(df)[c], missing_pct |-> null_pct(df, c)]

(* The order of sort_values(["missing", "column"], ascending=[False, True]) *)
NullsBefore(a, b) ==
  \/ a.missing > b.missing
  \/ a.missing = b.missing /\ StrLess(a.column, b.column)

RECURSIVE SortEntries(_)
SortEntries(S) ==
  IF S = {} THEN <<>>
  ELSE LET first == CHOOSE a \in S : \A b \in S \ {a} : NullsBefore(a, b)
       IN <<first>> \o SortEntries(S \ {first})

(* A sort that forgot ascending=[False, True]: fewest missing first. *)
RECURSIVE SortEntriesAscending(_)
SortEntriesAscending(S) ==
  IF S = {} THEN <<>>
  ELSE LET first == CHOOSE a \in S : \A b \in S \ {a} :
                      \/ a.missing < b.missing
                      \/ a.missing = b.missing /\ StrLess(a.column, b.column)
       IN <<first>> \o SortEntriesAscending(S \ {first})

NullsAscending(df) ==
  SortEntriesAscending({NullEntry(df, c) : c \in Range(df.columns)})

Nulls(df) == SortEntries({NullEntry(df, c) : c \in Range(df.columns)})

(***************************************************************************)
(* Format checks (lines 161-203)                                           *)
(***************************************************************************)
(* ser.str on a column that is not object dtype raises AttributeError. *)
EmailRaises(df) == HasColumn(df, "email") /\ ~df.object["email"]

invalid_emails(df) ==
  IF HasColumn(df, "email")
  THEN CountCells(df, "email", {x \in Cells(df) : NotNa(x) /\ ~EmailMatches(x.s)})
  ELSE 0

(* header = [c for c in df.columns if "date" in c.lower()] *)
header(df) == SelectSeq(df.columns, ContainsDate)

(* pd.to_datetime(c, format='mixed') raises on a text it cannot parse *)
DateRaises(df) ==
  \E i \in 1..df.rows :
    LET x == df.data[header(df)[1]][i] IN x.k = "str" /\ ~Parseable(x.s)

(* pd.to_datetime(c, format='mixed').isoformat() *)
DateIso(x) ==
  IF x.k = "nan" THEN NaTIso
  ELSE IF x.k = "num" THEN EpochIso
  ELSE IsoFormat(ParsedDate(x.s))

(* for date_col in dates: if date_col > today *)
total_future_dates(df) ==
  CountCells(df, header(df)[1],
             {x \in Cells(df) : StrGreater(DateIso(x), TodayIso)})

(* age < 18 on a str raises TypeError; on NaN it is False *)
AgeRaises(df) ==
  HasColumn(df, "age") /\ \E i \in 1..df.rows : df.data["age"][i].k = "str"

total_unrealistic_ages(df) ==
  IF HasColumn(df, "age")
  THEN CountCells(df, "age",
                  {x \in Cells(df) : x.k = "num" /\ (x.n < AgeLower \/ x.n > AgeUpper)})
  ELSE 0

total_invalid_statuses(df) ==
  IF HasColumn(df, "status")
  THEN CountCells(df, "status", {x \in Cells(df) : x.k = "str" /\ x.s = "UNKNOWN"})
  ELSE 0

(* Line 170 divides by rows with no guard; it is reached only with rows > 0 *)
Formats(df) ==
  [email_invalid |-> PyInt(invalid_emails(df)),
   email_invalid_pct |-> PyFloat(RoundHalfEven(invalid_emails(df) * 100000, df.rows)),
   future_dates |-> PyInt(total_future_dates(df)),
   future_dates_pct |-> Pct(total_future_dates(df), df.rows),
   unrealistic_ages |-> PyInt(total_unrealistic_ages(df)),
   total_unrealistic_pct |-> Pct(total_unrealistic_ages(df), df.rows),
   invalid_statuses |-> PyInt(total_invalid_statuses(df)),
   invalid_statuses_pct |-> Pct(total_invalid_statuses(df), df.rows)]

(***************************************************************************)
(* Logical inconsistencies (lines 205-238)                                 *)
(***************************************************************************)
(* violate = (low < high) & low.notna() & high.notna(), summed *)
Violations(df, low, high) ==
  Cardinality({i \in 1..df.rows :
    LET a == to_numeric(df.data[low][i])
        b == to_numeric(df.data[high][i])
    IN a # NULL /\ b # NULL /\ a[1] < b[1]})

(* The percentage taken over the rows where both sides are numbers. *)
LessThanOverValid(df, low, high) ==
  LET valid == Cardinality({i \in 1..df.rows :
                 /\ to_numeric(df.data[low][i]) # NULL
                 /\ to_numeric(df.data[high][i]) # NULL})
  IN IF HasColumn(df, low) /\ HasColumn(df, high)
     THEN [count |-> PyInt(Violations(df, low, high)),
           pct |-> PyAdd(PyInt(0), Pct(Violations(df, low, high), valid))]
     ELSE [count |-> PyInt(0), pct |-> PyInt(0)]

(* x = 0; x_pct = 0; if both columns: x += n; x_pct += round(n / rows ...) *)
LessThan(df, low, high) ==
  IF HasColumn(df, low) /\ HasColumn(df, high)
  THEN [count |-> PyInt(Violations(df, low, high)),
        pct |-> PyAdd(PyInt(0), Pct(Violations(df, low, high), df.rows))]
  ELSE [count |-> PyInt(0), pct |-> PyInt(0)]

LogicalInconsistencies(df) ==
  LET sell == LessThan(df, "selling_price", "cost_price")
      stock == LessThan(df, "current_stock", "reorder_level")
  IN [sell_less_cost |-> sell.count,
      sell_less_cost_pct |-> sell.pct,
      stock_less_reorder |-> stock.count,
      stock_less_reorder_pct |-> stock.pct]

(***************************************************************************)
(* Duplicate records (lines 240-252)                                       *)
(***************************************************************************)
(* Every repeated value counted once, however often it repeats. *)
DupsDistinct(df) ==
  Cardinality({df.data["email"][i] : i \in {k \in 1..df.rows :
    /\ NotNa(df.data["email"][k])
    /\ \E j \in 1..(k - 1) : df.data["email"][j] = df.data["email"][k]}})

(* int(df["email"].dropna().duplicated().sum()): the rows whose value       *)
(* already occurred in an earlier row                                      *)
dups_by_email(df) ==
  Cardinality({i \in 1..df.rows :
    /\ NotNa(df.data["email"][i])
    /\ \E j \in 1..(i - 1) : df.data["email"][j] = df.data["email"][i]})

DuplicateRecords(df) ==
  IF HasColumn(df, "email")
  THEN [total_duplicates_records |-> PyInt(dups_by_email(df)),
        total_duplicates_records_pct |->
          PyAdd(PyInt(0), Pct(dups_by_email(df), df.rows))]
  ELSE [total_duplicates_records |-> PyInt(0),
        total_duplicates_records_pct |-> PyInt(0)]

(***************************************************************************)
(* Outliers (lines 254-310)                                                *)
(***************************************************************************)
total_invalid_methods(df) ==
  IF HasColumn(df, "payment_method")
  THEN CountCells(df, "payment_method",
                  {x \in Cells(df) : x.k = "str" /\ x.s = "INVALID_METHOD"})
  ELSE 0

(* tm = pd.to_numeric(df["total_amount"].dropna(), errors="coerce") *)
negative_total_amount(df) ==
  IF HasColumn(df, "total_amount")
  THEN CountCells(df, "total_amount",
                  {x \in Cells(df) : to_numeric(x) # NULL /\ to_numeric(x)[1] < 0})
  ELSE 0

error_total_amount(df) ==
  IF HasColumn(df, "total_amount")
  THEN CountCells(df, "total_amount",
                  {x \in Cells(df) : NotNa(x) /\ to_numeric(x) = NULL})
  ELSE 0

(* x_pct = 0; if column in df.columns: x_pct += round(...) *)
PctIf(present, count, rows) ==
  IF present THEN PyAdd(PyInt(0), Pct(count, rows)) ELSE PyInt(0)

HasPricing(df) ==
  HasColumn(df, "product_id") /\ HasColumn(df, "unit_price")
    /\ HasColumn(df, "product_name")

(* pd.to_numeric(df["unit_price"], errors="coerce").round(2), in cents.     *)
(* The amounts of the inputs are never exactly halfway between two cents.  *)
price_cents(df, i) ==
  LET v == to_numeric(df.data["unit_price"][i])
  IN IF v = NULL THEN NULL ELSE Some(RoundHalfEven(v[1], 10))

(* The key of groupby(["product_id", "product_name"], dropna=False) *)
GroupKey(df, i) == <<df.data["product_id"][i], df.data["product_name"][i]>>

(* The group's __price_cents, in row order *)
GroupSeries(df, key) ==
  LET rowsOf == SelectSeq([i \in 1..df.rows |-> i], LAMBDA i : GroupKey(df, i) = key)
  IN [j \in 1..Len(rowsOf) |-> price_cents(df, rowsOf[j])]

(* The tie among the most frequent prices broken towards the largest. *)
CanonicalPriceLargest(series) ==
  LET s == SelectSeq(series, LAMBDA x : x # NULL)
      counts == [p \in Range(s) |-> Cardinality({i \in 1..Len(s) : s[i] = p})]
      max_count == SetMax({counts[p] : p \in Range(s)})
      modes == {p \in Range(s) : counts[p] = max_count}
  IN IF s = <<>> THEN NULL ELSE Some(SetMax({p[1] : p \in modes}))

(* canonical_price(series): Counter of the non-missing prices, the modes,   *)
(* np.nanmin of the modes; NaN for a group with no price                   *)
canonical_price(series) ==
  LET s == SelectSeq(series, LAMBDA x : x # NULL)
      counts == [p \in Range(s) |-> Cardinality({i \in 1..Len(s) : s[i] = p})]
      max_count == SetMax({counts[p] : p \in Range(s)})
      modes == {p \in Range(s) : counts[p] = max_count}
  IN IF s = <<>> THEN NULL ELSE Some(SetMin({p[1] : p \in modes}))

(* canon merged back on the group key *)
canonical_unit_price(df, i) == canonical_price(GroupSeries(df, GroupKey(df, i)))

(* valid & (__price_cents != canonical_unit_price) *)
is_outlier(df, i) ==
  /\ price_cents(df, i) # NULL
  /\ canonical_unit_price(df, i) # NULL
  /\ price_cents(df, i) # canonical_unit_price(df, i)

total_pricing_error(df) ==
  IF HasPricing(df) THEN Cardinality({i \in 1..df.rows : is_outlier(df, i)}) ELSE 0

Outliers(df) ==
  [total_invalid_methods |-> PyInt(total_invalid_methods(df)),
   total_invalid_methods_pct |->
     PctIf(HasColumn(df, "payment_method"), total_invalid_methods(df), df.rows),
   negative_total_amount |-> PyInt(negative_total_amount(df)),
   negative_total_amount_pct |->
     PctIf(HasColumn(df, "total_amount"), negative_total_amount(df), df.rows),
   error_total_amount |-> PyInt(error_total_amount(df)),
   error_total_amount_pct |->
     PctIf(HasColumn(df, "total_amount"), error_total_amount(df), df.rows),
   total_pricing_error |-> PyInt(total_pricing_error(df)),
   total_pricing_error_pct |-> PctIf(HasPricing(df), total_pricing_error(df), df.rows)]

(***************************************************************************)
(* Summary (lines 312-321)                                                 *)
(***************************************************************************)
(* dups, rules: the dicts of line 141, never assigned again *)
dups == <<>>

rules == <<>>

(* sum(d.values()) of a dict given as a record *)
RECURSIVE SumFields(_, _)
SumFields(d, keys) ==
  IF keys = {} THEN PyInt(0)
  ELSE LET key == CHOOSE x \in keys : TRUE
       IN PyAdd(d[key], SumFields(d, keys \ {key}))

(* sum(v for v in d.values() if isinstance(v, int)) *)
SumIntFields(d) == SumFields(d, {key \in DOMAIN d : d[key].ty = "int"})

Summary(df) ==
  [missing_cols |-> PyInt(Cardinality({c \in Range(df.columns) : null_counts(df)[c] > 0})),
   formats_total |->
     PyInt(invalid_emails(df) + total_future_dates(df) + total_unrealistic_ages(df)),
   logical_inconsistencies |-> LogicalInconsistencies(df),
   duplicates |-> SumIntFields(dups),
   outliers |-> SumFields(Outliers(df), DOMAIN Outliers(df)),
   rule_violations |-> PyInt(0)]

(***************************************************************************)
(* The try block as a whole (lines 143-321)                                *)
(***************************************************************************)
(* The exception the analysis of df raises, in statement order; <<>> when  *)
(* it runs to the end.                                                     *)
AnalysisError(df) ==
  IF EmailRaises(df) THEN Some("AttributeError")
  ELSE IF df.rows = 0 THEN Some("ZeroDivisionError")
  ELSE IF header(df) = <<>> THEN Some("IndexError")
  ELSE IF DateRaises(df) THEN Some("ValueError")
  ELSE IF AgeRaises(df) THEN Some("TypeError")
  ELSE NULL

(* The exception caught at line 323 for a saved file *)
Caught(content) ==
  IF ReadError(content) # NULL THEN ReadError(content)
  ELSE AnalysisError(read_csv(content))

(***************************************************************************)
(* The uploads table and the responses (lines 323-374)                     *)
(***************************************************************************)
(* json.dumps(x): the TEXT stored in a *_json column *)
json_dumps(x) == Some(x)

(* A degraded row that records 0 rows and 0 columns instead of NULL. *)
FailureRecordZeroCounts(id, filename, dest_path) ==
  [id |-> id, filename |-> filename, saved_to |-> dest_path,
   row_count |-> Some(0), column_count |-> Some(0), nulls_json |-> NULL,
   formats_json |-> NULL, logical_inconsistencies_json |-> NULL,
   duplicate_records_json |-> NULL, outliers_json |-> NULL,
   summary_json |-> NULL]

(* The INSERT of the except branch (lines 326-331): every metric is None.   *)
(* init_db created the table with all its columns, so this INSERT succeeds *)
(* and the fallback INSERT of lines 333-337 is not reached.  uploaded_at,  *)
(* the wall clock, is left out of the row.                                 *)
FailureRecord(id, filename, dest_path) ==
  [id |-> id, filename |-> filename, saved_to |-> dest_path,
   row_count |-> NULL, column_count |-> NULL, nulls_json |-> NULL,
   formats_json |-> NULL, logical_inconsistencies_json |-> NULL,
   duplicate_records_json |-> NULL, outliers_json |-> NULL,
   summary_json |-> NULL]

(* formats, logical_inconsistencies, duplicate_records, outliers, summary  *)
(* and nulls_light as they stand at the end of the try block               *)
Report(df) ==
  [nulls |-> Nulls(df), formats |-> Formats(df),
   logical_inconsistencies |-> LogicalInconsistencies(df),
   duplicates |-> DuplicateRecords(df), outliers |-> Outliers(df),
   summary |-> Summary(df)]

(* The INSERT after a completed analysis (lines 346-358) *)
ReportRecord(id, filename, dest_path, df, rep) ==
  [id |-> id, filename |-> filename, saved_to |-> dest_path,
   row_count |-> Some(df.rows), column_count |-> Some(Len(df.columns)),
   nulls_json |-> json_dumps(rep.nulls),
   formats_json |-> json_dumps(rep.formats),
   logical_inconsistencies_json |-> json_dumps(rep.logical_inconsistencies),
   duplicate_records_json |-> json_dumps(rep.duplicates),
   outliers_json |-> json_dumps(rep.outliers),
   summary_json |-> json_dumps(rep.summary)]

NoResponse == [kind |-> "none"]

BadRequest(msg) == [kind |-> "error", status |-> 400, error |-> msg]

(* Lines 339-344 *)
ReadErrorResponse(filename, dest_path, e) ==
  [kind |-> "read_error", status |-> 200,
   message |-> "Upload successful, but failed to read CSV for metadata.",
   filename |-> filename, saved_to |-> dest_path, read_error |-> e]

(* Lines 360-374 *)
ReportResponse(filename, dest_path, df, rep) ==
  [kind |-> "report", status |-> 200, message |-> "Upload successful",
   filename |-> filename, saved_to |-> dest_path,
   row_count |-> df.rows, column_count |-> Len(df.columns),
   columns |-> df.columns, nulls |-> rep.nulls, formats |-> rep.formats,
   logical_inconsistencies |-> rep.logical_inconsistencies,
   duplicates |-> rep.duplicates, outliers |-> rep.outliers,
   rules |-> rules, summary |-> rep.summary]

(***************************************************************************)
(* The requests                                                            *)
(***************************************************************************)
Name(stem, ext) == [stem |-> stem, ext |-> ext]

NoName == Name("", NULL)

Broken(kind) == [kind |-> kind, columns |-> <<>>, rows |-> <<>>]

Table(columns, rows) == [kind |-> "table", columns |-> columns, rows |-> rows]

(* All rows over a sequence of field sets, one per column *)
RECURSIVE RowsOver(_)
RowsOver(domains) ==
  IF domains = <<>> THEN {<<>>}
  ELSE {<<f>> \o r : f \in Head(domains), r \in RowsOver(Tail(domains))}

PastDate == Text("2020-01-15")

(* The column layouts of the uploaded files and the fields of each column *)
Schemas ==
  { [columns |-> <<"email", "age">>,
     domains |-> <<{Text("a@b.com"), Empty}, {NumText(25), Empty}>>],
    [columns |-> <<"Order_Date">>,
     domains |-> <<{PastDate, Text("2999-01-01"), Text("soon"), Empty}>>],
    [columns |-> <<"date", "age">>,
     domains |-> <<{Text("01/15/2020")},
                   {NumText(17), NumText(25), NumText(200), Text("abc"), Empty}>>],
    [columns |-> <<"status", "email", "signup_date">>,
     domains |-> <<{Text("UNKNOWN"), Empty},
                   {Text("a@b.com"), Text("B@D.COM"), Empty}, {PastDate}>>],
    [columns |-> <<"selling_price", "cost_price", "date">>,
     domains |-> <<{NumText(4), NumText(12)},
                   {NumText(5), NumText(10), Text("TBD")}, {PastDate}>>],
    [columns |-> <<"txn_date", "reorder_level", "current_stock">>,
     domains |-> <<{PastDate}, {NumText(2), Text("TBD")},
                   {NumText(1), NumText(3), Empty}>>],
    [columns |-> <<"product_id", "product_name", "unit_price", "sale_date">>,
     domains |-> <<{NumText(1), Empty}, {Text("widget"), Text("gadget")},
                   {NumText(10000), NumText(12000)}, {PastDate}>>],
    [columns |-> <<"product_id", "product_name", "unit_price", "sale_date">>,
     domains |-> <<{NumText(1)}, {Text("widget")},
                   {NumText(10000), NumText(10004), NumText(12000), Empty,
                    Text("TBD")}, {PastDate}>>],
    [columns |-> <<"payment_method", "total_amount", "paid_date">>,
     domains |-> <<{Text("CARD"), Text("INVALID_METHOD")},
                   {NumText(-5), NumText(7), Empty}, {PastDate}>>],
    [columns |-> <<"total_amount", "date">>,
     domains |-> <<{NumText(-5), Text("TBD"), Empty}, {PastDate}>>] }

Tables ==
  UNION {{Table(sc.columns, rows) :
            rows \in UNION {[1..n -> RowsOver(sc.domains)] : n \in 0..MaxRows}} :
         sc \in Schemas}

Requests ==
  {[has_file |-> FALSE, filename |-> NoName, content |-> Broken("empty")]}
    \cup {[has_file |-> TRUE, filename |-> f, content |-> Broken("empty")] :
            f \in {NoName, Name("notes", Some("txt")), Name("archive", NULL)}}
    \cup {[has_file |-> TRUE, filename |-> f, content |-> Broken(kind)] :
            f \in {Name("data", Some("csv")), Name("my data", Some("CSV"))},
            kind \in {"empty", "ragged", "undecodable"}}
    \cup {[has_file |-> TRUE, filename |-> Name("data", Some("csv")), content |-> t] :
            t \in Tables}

(***************************************************************************)
(* POST /upload (lines 123-374)                                            *)
(***************************************************************************)
(* The message of the 400 response of lines 125-132, <<>> if there is none *)
Rejection(req) ==
  IF ~req.has_file THEN Some("No file part in request.")
  ELSE IF req.filename = NoName THEN Some("No file selected.")
  ELSE IF ~allowed_file(req.filename) THEN Some("Only .csv files are allowed.")
  ELSE NULL

Init ==
  /\ request \in Requests
  /\ disk = {}
  /\ db = <<>>
  /\ response = NoResponse
  /\ pc = "request"
  /\ attempts = 0

(* The request is refused before anything is saved. *)
UploadRejected ==
  /\ pc = "request"
  /\ Rejection(request) # NULL
  /\ response' = BadRequest(Rejection(request)[1])
  /\ pc' = "done"
  /\ attempts' = attempts + 1
  /\ UNCHANGED <<request, disk, db>>

(* The file is saved, the try block raises, the except branch stores the   *)
(* degraded row and answers with read_error.                               *)
UploadUnreadable ==
  /\ pc = "request"
  /\ Rejection(request) = NULL
  /\ Caught(request.content) # NULL
  /\ LET filename == secure_filename(request.filename)
         dest_path == DestPath(filename)
     IN /\ disk' = disk \cup {[path |-> dest_path, content |-> request.content]}
        /\ db' = Append(db, FailureRecord(Len(db) + 1, filename, dest_path))
        /\ response' = ReadErrorResponse(filename, dest_path, Caught(request.content)[1])
  /\ pc' = "done"
  /\ attempts' = attempts + 1
  /\ UNCHANGED request

(* The file is saved, the try block runs to its end, the report is stored  *)
(* and returned.                                                           *)
UploadProfiled ==
  /\ pc = "request"
  /\ Rejection(request) = NULL
  /\ Caught(request.content) = NULL
  /\ LET filename == secure_filename(request.filename)
         dest_path == DestPath(filename)
         df == read_csv(request.content)
         rep == Report(df)
     IN /\ disk' = disk \cup {[path |-> dest_path, content |-> request.content]}
        /\ db' = Append(db, ReportRecord(Len(db) + 1, filename, dest_path, df, rep))
        /\ response' = ReportResponse(filename, dest_path, df, rep)
  /\ pc' = "done"
  /\ attempts' = attempts + 1
  /\ UNCHANGED request

(* The client, not given a report, submits the same file again. *)
Resubmit ==
  /\ pc = "done"
  /\ response.kind # "report"
  /\ attempts < MaxUploads
  /\ pc' = "request"
  /\ response' = NoResponse
  /\ UNCHANGED <<request, disk, db, attempts>>

Next == UploadRejected \/ UploadUnreadable \/ UploadProfiled \/ Resubmit

Spec == Init /\ [][Next]_vars

(***************************************************************************)
(* Properties.  They are stated on the uploaded file as the client sent it *)
(* (the CSV fields of request.content) and on what the handler answered    *)
(* and stored.                                                             *)
(***************************************************************************)
Done == pc = "done"

(* The request passed the checks of lines 125-132 and its file parsed. *)
Loaded == Rejection(request) = NULL /\ request.content.kind = "table"

Produced == Done /\ response.kind = "report"

N == Len(request.content.rows)

InFile(c) == c \in Range(request.content.columns)

Field(c, i) == request.content.rows[i][PositionOf(request.content.columns, c)]

(* The email column, if any, holds at least one text, so .str is defined *)
EmailUsable == InFile("email") => \E i \in 1..N : Field("email", i).k = "text"

DateColumns == {c \in Range(request.content.columns) : ContainsDate(c)}

ReportSections ==
  {"row_count", "column_count", "columns", "nulls", "formats",
   "logical_inconsistencies", "duplicates", "outliers", "rules", "summary"}

(* C1: a table with no column whose name contains "date" still gets a full *)
(* Report, with the future-dates check skipped (future_dates = 0).  Stated *)
(* for tables with at least one row and a usable email column, so that no  *)
(* other failure is involved.                                              *)
C1_AbsentDateColumnSkipped ==
  (Done /\ Loaded /\ N >= 1 /\ EmailUsable /\ DateColumns = {})
    => /\ response.kind = "report"
       /\ response.formats.future_dates = PyInt(0)

(* C2: a table with zero rows gets a Report in which the four format       *)
(* percentages are exactly 0.0.  Stated for tables that have a date column.*)
C2_EmptyTableZeroPct ==
  (Done /\ Loaded /\ N = 0 /\ DateColumns # {})
    => /\ response.kind = "report"
       /\ response.formats.email_invalid_pct = PyFloat(0)
       /\ response.formats.future_dates_pct = PyFloat(0)
       /\ response.formats.total_unrealistic_pct = PyFloat(0)
       /\ response.formats.invalid_statuses_pct = PyFloat(0)

(* C3: every table that loads gets a Report; a value that cannot be        *)
(* coerced (an unparseable date, a non-numeric age) is only left out of    *)
(* its check.  Stated for tables with rows, a date column and a usable     *)
(* email column, where nothing but a coercion can fail.                    *)
C3_CoercionFailureIsLocal ==
  (Done /\ Loaded /\ N >= 1 /\ EmailUsable /\ DateColumns # {})
    => response.kind = "report"

(* C4: summary.duplicates is the sum of the integer-valued entries of the  *)
(* duplicates report, summary.outliers the sum of the integer-valued       *)
(* entries of the outliers report.                                         *)
C4_SummaryRollups ==
  Produced
    => /\ response.summary.duplicates.milli = SumIntFields(response.duplicates).milli
       /\ response.summary.outliers.milli = SumIntFields(response.outliers).milli

MetricColumns ==
  {"row_count", "column_count", "nulls_json", "formats_json",
   "logical_inconsistencies_json", "duplicate_records_json", "outliers_json",
   "summary_json"}

(* C5: when read_csv fails, the answer carries the cause as read_error and *)
(* no report section, and each submission stored exactly one row, with the *)
(* saved name and path and NULL in row_count, column_count and every       *)
(* metrics column; a row with metrics exists only if the whole analysis    *)
(* of the file completed.                                                  *)
C5_ReadFailureRecord ==
  /\ (Rejection(request) = NULL /\ ReadError(request.content) # NULL)
       => /\ Len(db) = attempts
          /\ \A i \in 1..Len(db) :
               /\ db[i].filename = secure_filename(request.filename)
               /\ db[i].saved_to = DestPath(secure_filename(request.filename))
               /\ \A col \in MetricColumns : db[i][col] = NULL
          /\ Done => /\ response.kind = "read_error"
                     /\ response.read_error = ReadError(request.content)[1]
                     /\ DOMAIN response \cap ReportSections = {}
  /\ \A i \in 1..Len(db) :
       (\E col \in MetricColumns : db[i][col] # NULL)
         => /\ Caught(request.content) = NULL
            /\ \A col \in MetricColumns : db[i][col] # NULL

C5_Witness ==
  /\ Done
  /\ Rejection(request) = NULL
  /\ request.content.kind = "ragged"
  /\ request.filename.stem = "my data"
  /\ Len(db) = 2
  /\ db[2].id = 2

(* The price of row i rounded to cents, <<>> if the field is no number *)
RoundedPrice(i) ==
  IF Field("unit_price", i).k = "num"
  THEN Some(RoundHalfEven(Field("unit_price", i).n, 10))
  ELSE NULL

(* The priced rows of the (product_id, product_name) group of row i *)
PricedPeers(i) ==
  {j \in 1..N : /\ Field("product_id", j) = Field("product_id", i)
                /\ Field("product_name", j) = Field("product_name", i)
                /\ RoundedPrice(j) # NULL}

Frequency(i, p) == Cardinality({j \in PricedPeers(i) : RoundedPrice(j)[1] = p})

(* c is a price of the group no other price of the group is more frequent  *)
(* than, and the smallest such price                                       *)
IsCanonical(i, c) ==
  /\ \E j \in PricedPeers(i) : RoundedPrice(j)[1] = c
  /\ \A j \in PricedPeers(i) :
       LET p == RoundedPrice(j)[1]
       IN \/ Frequency(i, p) < Frequency(i, c)
          \/ Frequency(i, p) = Frequency(i, c) /\ c <= p

IsAnomaly(i) ==
  /\ RoundedPrice(i) # NULL
  /\ \E j \in PricedPeers(i) :
       IsCanonical(i, RoundedPrice(j)[1]) /\ RoundedPrice(j) # RoundedPrice(i)

(* C6: with product_id, product_name and unit_price columns, the canonical *)
(* price of every group is its most frequent non-missing rounded price,    *)
(* the smallest on a tie, and total_pricing_error counts the rows whose    *)
(* rounded price and canonical price are both defined and differ;          *)
(* [10.00, 10.00, 12.00] has canonical 10.00, [10.00, 12.00] too.          *)
C6_CanonicalPrice ==
  (Produced /\ InFile("product_id") /\ InFile("product_name") /\ InFile("unit_price"))
    => /\ \A i \in 1..N :
            LET canon == canonical_unit_price(read_csv(request.content), i)
            IN IF PricedPeers(i) = {} THEN canon = NULL
               ELSE canon # NULL /\ IsCanonical(i, canon[1])
       /\ response.outliers.total_pricing_error
            = PyInt(Cardinality({i \in 1..N : IsAnomaly(i)}))
       /\ canonical_price(<<Some(1000), Some(1000), Some(1200)>>) = Some(1000)
       /\ canonical_price(<<Some(1200), Some(1000)>>) = Some(1000)

(* One group with the prices 12.00, 10.004 and 10.00: one anomaly *)
C6_Witness ==
  /\ Produced
  /\ InFile("unit_price")
  /\ N = 3
  /\ Field("unit_price", 1) = NumText(12000)
  /\ Field("unit_price", 2) = NumText(10004)
  /\ Field("unit_price", 3) = NumText(10000)
  /\ response.outliers.total_pricing_error = PyInt(1)

EmailValues == {Field("email", i) : i \in {j \in 1..N : Field("email", j).k # "empty"}}

Occurrences(v) == Cardinality({i \in 1..N : Field("email", i) = v})

(* C7: with an email column, the by-key duplicate count is the sum, over   *)
(* the distinct non-missing email values, of the occurrences minus one;    *)
(* missing values are not duplicates of each other.                        *)
C7_DuplicatesByEmail ==
  (Produced /\ InFile("email"))
    => response.duplicates.total_duplicates_records
         = PyInt(SumSet(EmailValues, [v \in EmailValues |-> Occurrences(v) - 1]))

(* [a, a, a]: two extra occurrences of a *)
C7_Witness ==
  /\ Produced
  /\ InFile("email")
  /\ N = 3
  /\ \A i \in 1..N : Field("email", i) = Text("a@b.com")
  /\ response.duplicates.total_duplicates_records = PyInt(2)

SellBelowCost ==
  {i \in 1..N : /\ Field("selling_price", i).k = "num"
                /\ Field("cost_price", i).k = "num"
                /\ Field("selling_price", i).n < Field("cost_price", i).n}

(* C8: with cost_price and selling_price columns, sell_less_cost counts    *)
(* the rows where both are numbers and selling_price < cost_price, and     *)
(* sell_less_cost_pct is that count over all N rows, to 3 decimals.        *)
C8_SellLessCost ==
  (Produced /\ InFile("cost_price") /\ InFile("selling_price"))
    => /\ response.logical_inconsistencies.sell_less_cost
            = PyInt(Cardinality(SellBelowCost))
       /\ response.logical_inconsistencies.sell_less_cost_pct
            = PyFloat(RoundHalfEven(Cardinality(SellBelowCost) * 100000, N))

(* cost_price = [5, 10], selling_price = [4, 12]: count 1, 50.0 % *)
C8_Witness ==
  /\ Produced
  /\ InFile("cost_price")
  /\ N = 2
  /\ Field("cost_price", 1) = NumText(5) /\ Field("selling_price", 1) = NumText(4)
  /\ Field("cost_price", 2) = NumText(10) /\ Field("selling_price", 2) = NumText(12)
  /\ response.logical_inconsistencies.sell_less_cost = PyInt(1)
  /\ response.logical_inconsistencies.sell_less_cost_pct = PyFloat(50000)

(* C9: the null profile has exactly one entry per column, and of two       *)
(* consecutive entries the first has more missing values, or as many and   *)
(* the smaller column name.                                                *)
C9_NullProfileOrder ==
  Produced
    => /\ Len(response.nulls) = Len(request.content.columns)
       /\ \A c \in Range(request.content.columns) :
            Cardinality({k \in 1..Len(response.nulls) :
                           response.nulls[k].column = c}) = 1
       /\ \A k \in 1..(Len(response.nulls) - 1) :
            LET a == response.nulls[k]
                b == response.nulls[k + 1]
            IN \/ a.missing > b.missing
               \/ a.missing = b.missing /\ StrLess(a.column, b.column)

(* Three columns: two tied on their count and put in name order, which is  *)
(* not the file's order, ahead of one with fewer missing values            *)
C9_Witness ==
  /\ Produced
  /\ Len(response.nulls) = 3
  /\ response.nulls[1].missing = response.nulls[2].missing
  /\ response.nulls[2].missing > response.nulls[3].missing
  /\ response.nulls[1].column = request.content.columns[2]
  /\ response.nulls[2].column = request.content.columns[1]

DistinctValues(c) == {Field(c, i) : i \in {j \in 1..N : Field(c, j).k # "empty"}}

(* C10: a column with a single distinct non-missing value has no reported  *)
(* outlier: the entries of the outliers report that count rows of that     *)
(* column are 0.                                                           *)
C10_NoSpreadNoOutliers ==
  Produced
    => /\ (InFile("total_amount") /\ Cardinality(DistinctValues("total_amount")) = 1)
            => /\ response.outliers.negative_total_amount = PyInt(0)
               /\ response.outliers.error_total_amount = PyInt(0)
       /\ (InFile("payment_method")
             /\ Cardinality(DistinctValues("payment_method")) = 1)
            => response.outliers.total_invalid_methods = PyInt(0)

====
